---- MODULE Spec2Model ----
(***************************************************************************)
(* Call signalling of clawdbot-telegram-voice: the Diffie-Hellman helpers, *)
(* the Call / IncomingCall / OutgoingCall state machines and the three     *)
(* front ends that drive them:                                             *)
(*   "voice"  - CallService     (python/voice/telegram-voice-service.py)     *)
(*   "bridge" - TelegramTextBridge, legacy tgcalls path                    *)
(*                              (src/telegram-text-bridge.py)              *)
(*   "aiortc" - AiortcP2PCall   (python/voice/aiortc-p2p-calls.py)          *)
(* Every coroutine is cut at its awaits on the network (client.invoke,     *)
(* asyncio.sleep): the code between two awaits is one atomic step, and a   *)
(* suspended coroutine is a record of the variable tasks.                  *)
(***************************************************************************)
EXTENDS Integers, Sequences, FiniteSets, Bags, TLC

\* ------------------------------------------------------------------ bounds
\* call objects the voice service constructs in one run
MaxCalls == 2
\* call objects the bridge constructs in one run
MaxBridgeCalls == 1
\* coroutines suspended at an await at the same time
MaxTasks == 2
\* saturation of the counters of issued RPCs and published events
MaxCount == 2
\* commands of the host and notifications of the network in one run
MaxInputs == 3
\* signaling blobs received from the network and emitted by the media
\* transports in one run
MaxBlobs == 2
\* event handlers registered with CallService.add_event_handler
MaxHandlers == 3

\* ------------------------------------------------- Diffie-Hellman helpers
\* twoe1984 = 1 << 1984 is checked against a 2048-bit modulus and so leaves
\* the top 64 bits free; here the moduli have 9 bits and the bound is 1 << 4.
twoe1984 == 16

\* moduli messages.GetDhConfig may return (primes above 255, so that a
\* modulus takes two bytes), and the generator it returns
DHPrimes == {263}
\* moduli the GetDhConfig of a call that is already requested may return:
\* the server may have changed its DH parameters since
DHPrimesLater == DHPrimes \cup {269}
DHGens == {3}

\* private exponents randint(2, p - 1) may draw
PrivKeys(p) == {5, p - 1}

\* public values a peer may send in PhoneCallAccepted: 100 passes check_g,
\* 1 fails its first bound, 10 and p - 5 only the second
PeerValues(p) == {1, 10, 100, p - 5}

\* values a peer may commit to in PhoneCallRequested (100 is in range, 10
\* is not) and reveal in PhoneCall (0 is the empty byte string)
Committed == {100, 10}
Revealed == {0, 10, 100}

RECURSIVE i2b(_)
i2b(value) == IF value = 0 THEN << >> ELSE Append(i2b(value \div 256), value % 256)

RECURSIVE b2i(_)
b2i(value) ==
    IF value = << >> THEN 0
    ELSE 256 * b2i(SubSeq(value, 1, Len(value) - 1)) + value[Len(value)]

\* pow(base, exp, mod)
RECURSIVE pow(_, _, _)
pow(base, exp, mod) ==
    IF exp = 0 THEN 1 % mod
    ELSE LET h == pow(base, exp \div 2, mod)
             s == (h * h) % mod
         IN  IF exp % 2 = 1 THEN (s * (base % mod)) % mod ELSE s

\* check_g without its second test: only 1 < g_x < p - 1 is required
check_g_first_bound(g_x, p) ==
    1 < g_x /\ g_x < p - 1

\* check_g raises ValueError; TRUE here means that it returns normally
check_g(g_x, p) ==
    /\ (1 < g_x /\ g_x < p - 1)
    /\ (twoe1984 < g_x /\ g_x < p - twoe1984)

\* hashlib.sha256(b).digest(): an ideal hash, the input under a tag that is
\* no byte, so that digests of different byte strings differ
sha256(b) == <<256>> \o b

\* calc_fingerprint(key): the tail of the SHA-1 digest read as an integer,
\* again an ideal hash of the key bytes
calc_fingerprint(key) == <<257>> \o key

\* a fingerprint no key has
BadFingerprint == <<258>>

\* --------------------------------------------------------------- values
None == 0 - 1
NoBytes == << >>

Peers == {555, 777}
Callees == {555}
CallIds == {41, 42}
AccessHashes == {7}
AccessHash == CHOOSE h \in AccessHashes : TRUE

\* a phone_call object of the RPC layer (types.PhoneCall*); the fields a
\* type does not have hold None / NoBytes
PhoneCallObj(t, i, ah, gah, gb, gab, fp, r, adm) ==
    [type |-> t, id |-> i, access_hash |-> ah, g_a_hash |-> gah, g_b |-> gb,
     g_a_or_b |-> gab, key_fingerprint |-> fp, reason |-> r, admin_id |-> adm]

NoCall == PhoneCallObj("None", 0, None, NoBytes, NoBytes, NoBytes, NoBytes, "None", None)

PhoneCallRequested(i, gah, adm) ==
    PhoneCallObj("PhoneCallRequested", i, AccessHash, gah, NoBytes, NoBytes, NoBytes, "None", adm)
PhoneCallWaiting(i) ==
    PhoneCallObj("PhoneCallWaiting", i, AccessHash, NoBytes, NoBytes, NoBytes, NoBytes, "None", None)
PhoneCallAccepted(i, gb) ==
    PhoneCallObj("PhoneCallAccepted", i, AccessHash, NoBytes, gb, NoBytes, NoBytes, "None", None)
PhoneCall(i, gab, fp) ==
    PhoneCallObj("PhoneCall", i, AccessHash, NoBytes, NoBytes, gab, fp, "None", None)
PhoneCallDiscarded(i, r) ==
    PhoneCallObj("PhoneCallDiscarded", i, None, NoBytes, NoBytes, NoBytes, NoBytes, r, None)

DiscardReasons == {"Busy", "Hangup"}

VARIABLES
    sys,            \* which front end runs: "voice", "bridge" or "aiortc"
    auto_answer,    \* CallService.auto_answer / TelegramTextBridge._auto_answer
    allowed_users,  \* TelegramTextBridge.allowed_users
    calls,          \* the Call objects constructed so far, in order
    active_call,    \* CallService.active_call: an index of calls, 0 is None
    active_calls,   \* TelegramTextBridge._active_calls: call id -> index
    ai,             \* the AiortcP2PCall object
    tasks,          \* the coroutines suspended at an await
    rpcs,           \* bag of the RPCs issued to the messaging network
    events,         \* bag of the events published to the host
    last,           \* what the last step did and returned
    inputs,         \* number of commands and notifications so far
    sig,            \* the signaling blobs: n counts them, id and into are the
                    \* call id of the last UpdatePhoneCallSignalingData and the
                    \* calls it was injected into, times how often into each,
                    \* sendq the coroutines that
                    \* signalling_data_emitted_callback scheduled, sent the
                    \* SendSignalingData RPCs issued, in order
    subs            \* the event handlers of CallService: emitted are the
                    \* events emit_event was called with, got[h] the events
                    \* handler h was called with, failed the handlers that
                    \* raised in the last emit_event and raised whether that
                    \* emit_event let an exception out

vars == <<sys, auto_answer, allowed_users, calls, active_call, active_calls,
          ai, tasks, rpcs, events, last, inputs, sig, subs>>

\* ------------------------------------------------------------ Call objects
\* Call.__init__: the fields of a call object.  derived and vfail are
\* history: the peer value and modulus auth_key was computed from with the
\* commitment g_a_hash held then, and the validation this call failed
\* ("range", "commitment", "fingerprint").
NewCall(role, user) ==
    [role |-> role, state |-> "None", call |-> NoCall, call_access_hash |-> None,
     user_id |-> user, dhc |-> None, a |-> None, b |-> None, g_a |-> None,
     g_b |-> None, g_a_hash |-> NoBytes, auth_key |-> None,
     key_fingerprint |-> NoBytes, native_instance |-> FALSE,
     handler |-> FALSE, removing |-> FALSE, init_handlers |-> FALSE,
     derived |-> << >>, vfail |-> "None"]

\* Call.call_id
call_id(c) == IF c.call.type # "None" THEN c.call.id ELSE 0

\* Call.auth_key_bytes
auth_key_bytes(c) == IF c.auth_key # None THEN i2b(c.auth_key) ELSE NoBytes

Terminal == {"ENDED", "FAILED", "BUSY"}

\* ------------------------------------------------ logs of RPCs and events
\* rpcs and events count, up to MaxCount, the DiscardCall RPCs and the
\* terminal events; of any other event it is recorded that it was published,
\* other RPCs are not recorded
Counted(e) ==
    \/ "op" \in DOMAIN e /\ e.op = "DiscardCall"
    \/ "type" \in DOMAIN e /\ e.type \in {"call.ended", "call.failed"}
Log(B, e) == IF ~Counted(e) \/ CopiesIn(e, B) >= MaxCount THEN B ELSE B (+) SetToBag({e})
Publish(B, e) ==
    IF CopiesIn(e, B) >= (IF Counted(e) THEN MaxCount ELSE 1) THEN B ELSE B (+) SetToBag({e})

Rpc(op, id, ah, reason, data) ==
    [op |-> op, id |-> id, access_hash |-> ah, reason |-> reason, data |-> data]
Event(type, id, info) == [type |-> type, call_id |-> id, info |-> info]

\* functions.phone.DiscardCall as Call.discard_call builds it
DiscardRpc(c, reason) == Rpc("DiscardCall", call_id(c), c.call_access_hash, reason, NoBytes)

\* the part of the state the methods of Call change
World == [calls |-> calls, events |-> events, active_calls |-> active_calls,
          exc |-> "None", why |-> "None"]

\* TelegramTextBridge._remove_call
remove_call(w, i) ==
    LET id == call_id(w.calls[i])
    IN  IF id \in DOMAIN w.active_calls
        THEN [w EXCEPT !.active_calls = [k \in DOMAIN @ \ {id} |-> @[k]]]
        ELSE w

\* Call.stop: the voice service schedules a task that takes the call's
\* update handler off the client, the bridge takes the call out of
\* _active_calls and leaves the handler registered
stop(w, i) ==
    IF sys = "bridge" THEN remove_call(w, i)
    ELSE [w EXCEPT !.calls[i].removing = w.calls[i].handler]

\* the task Call.stop scheduled runs: remove_handler takes the handler off
remove_handler(i) ==
    /\ sys = "voice"
    /\ i \in 1..Len(calls) /\ calls[i].removing
    /\ calls' = [calls EXCEPT ![i].handler = FALSE, ![i].removing = FALSE]
    /\ UNCHANGED <<sys, auto_answer, allowed_users, active_call, active_calls, ai,
                   tasks, rpcs, events, last>>

\* Call.update_state: the bridge publishes call.state_changed, the voice
\* service only logs
update_state(w, i, val) ==
    LET w1 == [w EXCEPT !.calls[i].state = val]
    IN  IF sys = "bridge"
        THEN [w1 EXCEPT !.events =
                  Publish(@, Event("call.state_changed", call_id(w.calls[i]), val))]
        ELSE w1

\* Call.call_ended
call_ended(w, i) ==
    LET w1 == stop(update_state(w, i, "ENDED"), i)
    IN  IF sys = "bridge" THEN w1
        ELSE [w1 EXCEPT !.events = Publish(@, Event("call.ended", call_id(w.calls[i]), "ended"))]

\* Call.call_failed
call_failed(w, i) ==
    LET w1 == stop(update_state(w, i, "FAILED"), i)
    IN  IF sys = "bridge" THEN w1
        ELSE [w1 EXCEPT !.events = Publish(@, Event("call.ended", call_id(w.calls[i]), "failed"))]

\* Call.call_discarded: self.call.reason exists on PhoneCallDiscarded only,
\* on any other phone_call object the attribute access raises; the voice
\* service tests self.call first and takes the else branch when it is None
call_discarded(w, i) ==
    LET c == w.calls[i]
    IN  IF c.call.type = "PhoneCallDiscarded" /\ c.call.reason = "Busy"
        THEN LET w1 == stop(update_state(w, i, "BUSY"), i)
             IN  IF sys = "bridge" THEN w1
                 ELSE [w1 EXCEPT !.events = Publish(@, Event("call.ended", call_id(c), "busy"))]
        ELSE IF c.call.type = "PhoneCallDiscarded" \/ (sys = "voice" /\ c.call.type = "None")
        THEN call_ended(w, i)
        ELSE [w EXCEPT !.exc = "AttributeError"]

\* ------------------------------------------------------------- coroutines
\* a coroutine suspended at the await pc: op is the entry point that
\* started it, c the call object it works on, u the update it was given
Task(op, pc, c, u) == [op |-> op, pc |-> pc, c |-> c, u |-> u]

Finish(k) == [j \in 1..(Len(tasks) - 1) |-> IF j < k THEN tasks[j] ELSE tasks[j + 1]]
Goto(k, pc) == [tasks EXCEPT ![k].pc = pc]
At(k, ops, pc) == k \in 1..Len(tasks) /\ tasks[k].op \in ops /\ tasks[k].pc = pc

Did(op, c, result) == [op |-> op, c |-> c, result |-> result]

\* the commands of the bridge come from stdin_reader, which awaits each
\* handle_request before it reads the next line
BridgeCmdOps == {"call.start", "call.answer", "call.hangup"}
BridgeIdle == \A k \in 1..Len(tasks) : tasks[k].op \notin BridgeCmdOps

\* the id the server gives to a new outgoing call: the least one that no
\* call object holds
UnusedIds == CallIds \ ({call_id(calls[j]) : j \in 1..Len(calls)} \cup {ai.call.id})
FreshIds == {x \in UnusedIds : \A y \in UnusedIds : x <= y}

\* AiortcP2PCall.__init__ (state is CallState.state, pc the
\* RTCPeerConnection); derived and vfail are history as in NewCall
NewAiortcP2PCall ==
    [state |-> "IDLE", call_id |-> None, user_id |-> None, call |-> NoCall,
     call_access_hash |-> None, private_key |-> None, g_a |-> None,
     g_a_hash |-> NoBytes, auth_key |-> NoBytes, key_fingerprint |-> NoBytes,
     pc |-> FALSE, derived |-> << >>, vfail |-> "None"]

Init ==
    /\ sys \in {"voice", "bridge", "aiortc"}
    /\ auto_answer \in BOOLEAN
    /\ allowed_users \in {{}, {555}}
    /\ (sys # "bridge" => allowed_users = {})
    /\ (sys = "aiortc" => auto_answer = FALSE)
    /\ calls = << >>
    /\ active_call = 0
    /\ active_calls = << >>
    /\ ai = NewAiortcP2PCall
    /\ tasks = << >>
    /\ rpcs = EmptyBag
    /\ events = EmptyBag
    /\ last = Did("init", 0, "None")
    /\ inputs = 0
    /\ sig = [n |-> 0, id |-> 0, into |-> {}, times |-> << >>, sendq |-> << >>,
              sent |-> << >>]
    /\ subs = [emitted |-> {}, got |-> [h \in 1..MaxHandlers |-> {}],
               failed |-> {}, raised |-> FALSE]

\* --------------------------------------------------- OutgoingCall.request
\* CallService.start_call up to the first await of OutgoingCall.request
start_call(user) ==
    /\ sys = "voice"
    /\ IF active_call # 0
       THEN /\ last' = Did("start_call", 0, "Another call is active")
            /\ UNCHANGED <<calls, active_call, tasks>>
       ELSE /\ Len(calls) < MaxCalls /\ Len(tasks) < MaxTasks
            /\ calls' = Append(calls, [NewCall("out", user) EXCEPT
                                          !.handler = TRUE, !.state = "REQUESTING"])
            /\ active_call' = Len(calls) + 1
            /\ tasks' = Append(tasks, Task("start_call", "get_dhc", Len(calls) + 1, NoCall))
            /\ last' = Did("start_call", Len(calls) + 1, "await")
    /\ UNCHANGED <<sys, auto_answer, allowed_users, active_calls, ai, rpcs, events>>

\* TelegramTextBridge.handle_request, action call.start without aiortc, up
\* to the first await of OutgoingCall.request
handle_request_call_start(user) ==
    /\ sys = "bridge" /\ BridgeIdle
    /\ Len(calls) < MaxBridgeCalls /\ Len(tasks) < MaxTasks
    /\ LET w == update_state([World EXCEPT !.calls =
                      Append(calls, [NewCall("out", user) EXCEPT !.handler = TRUE])],
                      Len(calls) + 1, "REQUESTING")
       IN  /\ calls' = w.calls
           /\ events' = w.events
    /\ tasks' = Append(tasks, Task("call.start", "get_dhc", Len(calls) + 1, NoCall))
    /\ last' = Did("call.start", Len(calls) + 1, "await")
    /\ UNCHANGED <<sys, auto_answer, allowed_users, active_call, active_calls, ai, rpcs>>

\* an exception leaves OutgoingCall.request: start_call clears active_call,
\* the bridge answers with the error
request_raised(k) ==
    /\ tasks' = Finish(k)
    /\ active_call' = IF sys = "voice" THEN 0 ELSE active_call
    /\ last' = Did(tasks[k].op, tasks[k].c, "error")

\* OutgoingCall.request from resolve_peer / get_dhc to the RequestCall RPC
request_get_dhc(k) ==
    /\ At(k, {"start_call", "call.start"}, "get_dhc")
    /\ LET i == tasks[k].c
       IN  \/ /\ request_raised(k)
              /\ UNCHANGED <<calls, rpcs>>
           \/ \E p \in DHPrimes, g \in DHGens : \E a \in PrivKeys(p) :
                LET g_a == pow(g, a, p)
                    g_a_hash == sha256(i2b(g_a))
                IN  /\ calls' = [calls EXCEPT ![i].dhc = p, ![i].a = a,
                                              ![i].g_a = g_a, ![i].g_a_hash = g_a_hash]
                    /\ rpcs' = Log(rpcs, Rpc("RequestCall", 0, None, "None", g_a_hash))
                    /\ tasks' = Goto(k, "RequestCall")
                    /\ last' = Did("request", i, "await")
                    /\ UNCHANGED active_call
    /\ UNCHANGED <<sys, auto_answer, allowed_users, active_calls, ai, events>>

\* request_RequestCall without update_state('WAITING')
request_RequestCall_no_waiting(k) ==
    /\ At(k, {"start_call", "call.start"}, "RequestCall")
    /\ LET i == tasks[k].c
       IN  \/ /\ request_raised(k)
              /\ UNCHANGED <<calls, events, active_calls>>
           \/ \E id \in FreshIds :
                LET w == [World EXCEPT !.calls[i].call = PhoneCallWaiting(id)]
                IN  /\ calls' = IF sys = "voice"
                                THEN [w.calls EXCEPT ![i].init_handlers = TRUE]
                                ELSE w.calls
                    /\ events' = w.events
                    /\ active_calls' = IF sys = "bridge"
                                       THEN (id :> i) @@ active_calls
                                       ELSE active_calls
                    /\ tasks' = Finish(k)
                    /\ last' = Did(tasks[k].op, i, "started")
                    /\ UNCHANGED active_call
    /\ UNCHANGED <<sys, auto_answer, allowed_users, ai, rpcs>>

\* OutgoingCall.request after the RequestCall RPC, and what its caller
\* does with the call: start_call registers on_call_established, the bridge
\* enters the call into _active_calls
request_RequestCall(k) ==
    /\ At(k, {"start_call", "call.start"}, "RequestCall")
    /\ LET i == tasks[k].c
       IN  \/ /\ request_raised(k)
              /\ UNCHANGED <<calls, events, active_calls>>
           \/ \E id \in FreshIds :
                LET w0 == [World EXCEPT !.calls[i].call = PhoneCallWaiting(id)]
                    w  == update_state(w0, i, "WAITING")
                IN  /\ calls' = IF sys = "voice"
                                THEN [w.calls EXCEPT ![i].init_handlers = TRUE]
                                ELSE w.calls
                    /\ events' = w.events
                    /\ active_calls' = IF sys = "bridge"
                                       THEN (id :> i) @@ active_calls
                                       ELSE active_calls
                    /\ tasks' = Finish(k)
                    /\ last' = Did(tasks[k].op, i, "started")
                    /\ UNCHANGED active_call
    /\ UNCHANGED <<sys, auto_answer, allowed_users, ai, rpcs>>



\* ------------------------------------------------------ Call.discard_call
\* CallService.hangup up to the await of the DiscardCall RPC
hangup ==
    /\ sys = "voice"
    /\ IF active_call = 0
       THEN /\ last' = Did("hangup", 0, "No active call")
            /\ UNCHANGED <<tasks, rpcs>>
       ELSE /\ Len(tasks) < MaxTasks
            /\ rpcs' = Log(rpcs, DiscardRpc(calls[active_call], "Disconnect"))
            /\ tasks' = Append(tasks, Task("hangup", "DiscardCall", active_call, NoCall))
            /\ last' = Did("hangup", active_call, "await")
    /\ UNCHANGED <<sys, auto_answer, allowed_users, calls, active_call, active_calls,
                   ai, events>>

\* Call.discard_call after the await: the voice service catches every
\* exception of the RPC, the bridge only CallAlreadyDeclined and
\* CallAlreadyAccepted ("declined"); any other one ("error") leaves
\* discard_call before call_ended
DiscardOutcomes == {"ok", "declined", "error"}
discard_call_resumed(w, i, outcome) ==
    IF sys = "bridge" /\ outcome = "error"
    THEN [w EXCEPT !.exc = "RPCError"]
    ELSE call_ended(w, i)

\* CallService.hangup, CallService.reject and CallService._call_timeout
\* after discard_call: each clears active_call
hangup_DiscardCall(k) ==
    /\ At(k, {"hangup", "reject", "timeout"}, "DiscardCall")
    /\ \E outcome \in DiscardOutcomes :
         LET w == discard_call_resumed(World, tasks[k].c, outcome)
         IN  /\ calls' = w.calls
             /\ events' = w.events
    /\ active_call' = 0
    /\ tasks' = Finish(k)
    /\ last' = Did(tasks[k].op, tasks[k].c, "hungup")
    /\ UNCHANGED <<sys, auto_answer, allowed_users, active_calls, ai, rpcs>>

\* CallService.reject up to the await of the DiscardCall RPC: an active
\* IncomingCall is discarded with the reason Busy whatever its state;
\* OutgoingCall has no method reject, the AttributeError leaves
\* CallService.reject before anything is changed
CallService_reject ==
    /\ sys = "voice"
    /\ IF active_call = 0
       THEN /\ last' = Did("reject", 0, "No incoming call")
            /\ UNCHANGED <<tasks, rpcs>>
       ELSE IF calls[active_call].role = "out"
       THEN /\ last' = Did("reject", active_call, "AttributeError")
            /\ UNCHANGED <<tasks, rpcs>>
       ELSE /\ Len(tasks) < MaxTasks
            /\ rpcs' = Log(rpcs, DiscardRpc(calls[active_call], "Busy"))
            /\ tasks' = Append(tasks, Task("reject", "DiscardCall", active_call, NoCall))
            /\ last' = Did("reject", active_call, "await")
    /\ UNCHANGED <<sys, auto_answer, allowed_users, calls, active_call, active_calls,
                   ai, events>>

\* CallService._call_timeout after its sleep of max_duration: nothing
\* unless the call is still the active one and ESTABLISHED, else the
\* goodbye is played (an await)
call_timeout(k) ==
    /\ At(k, {"timeout"}, "sleep")
    /\ LET i == tasks[k].c
       IN  IF active_call = i /\ calls[i].state = "ESTABLISHED"
           THEN /\ tasks' = Goto(k, "goodbye")
                /\ last' = Did("timeout", i, "await")
           ELSE /\ tasks' = Finish(k)
                /\ last' = Did("timeout", i, "None")
    /\ UNCHANGED <<sys, auto_answer, allowed_users, calls, active_call, active_calls,
                   ai, rpcs, events>>

\* _call_timeout after the goodbye, up to the await of the DiscardCall RPC
call_timeout_goodbye(k) ==
    /\ At(k, {"timeout"}, "goodbye")
    /\ rpcs' = Log(rpcs, DiscardRpc(calls[tasks[k].c], "Disconnect"))
    /\ tasks' = Goto(k, "DiscardCall")
    /\ last' = Did("timeout", tasks[k].c, "await")
    /\ UNCHANGED <<sys, auto_answer, allowed_users, calls, active_call, active_calls,
                   ai, events>>

\* TelegramTextBridge.handle_request, action call.hangup without aiortc, up
\* to the await of the DiscardCall RPC; without a call_id in the payload
\* the first key of _active_calls is taken
handle_request_call_hangup(id) ==
    /\ sys = "bridge" /\ BridgeIdle
    /\ id \in CallIds \cup {0}
    /\ LET ids == DOMAIN active_calls
           cid == IF id # 0 THEN id
                  ELSE CHOOSE x \in ids : \A y \in ids : active_calls[x] <= active_calls[y]
       IN  IF ids = {} \/ cid \notin ids
           THEN /\ last' = Did("call.hangup", 0, "No active call")
                /\ UNCHANGED <<tasks, rpcs>>
           ELSE /\ Len(tasks) < MaxTasks
                /\ rpcs' = Log(rpcs, DiscardRpc(calls[active_calls[cid]], "Disconnect"))
                /\ tasks' = Append(tasks, Task("call.hangup", "DiscardCall",
                                               active_calls[cid], NoCall))
                /\ last' = Did("call.hangup", active_calls[cid], "await")
    /\ UNCHANGED <<sys, auto_answer, allowed_users, calls, active_call, active_calls,
                   ai, events>>

\* handle_request, action call.hangup, after discard_call
call_hangup_DiscardCall(k) ==
    /\ At(k, {"call.hangup"}, "DiscardCall")
    /\ \E outcome \in DiscardOutcomes :
         LET w == discard_call_resumed(World, tasks[k].c, outcome)
         IN  /\ calls' = w.calls
             /\ events' = w.events
             /\ active_calls' = w.active_calls
             /\ last' = Did("call.hangup", tasks[k].c,
                            IF w.exc = "None" THEN "ok" ELSE "error")
    /\ tasks' = Finish(k)
    /\ UNCHANGED <<sys, auto_answer, allowed_users, active_call, ai, rpcs>>

\* ---------------------------------------------------- Call.process_update
\* not self.auth_key
NoAuthKey(c) == c.auth_key = None \/ c.auth_key = 0

\* the test of Call.process_update that the update is for this call; a
\* handler that was taken off the client is not called at all
Matches(c, u) == c.handler /\ c.call.type # "None" /\ u.id = c.call.id

\* The dispatcher hands the UpdatePhoneCall u to the handlers of the calls
\* j, j+1, ... in the order they were registered, until one of them stops
\* the propagation or suspends.  Call.process_update runs up to its first
\* await: the call keeps the phone_call object and its access hash and
\* awaits received_call; PhoneCallDiscarded carries no access hash and goes
\* on to call_discarded and StopPropagation.
RECURSIVE propagate(_, _, _)
propagate(st, j, u) ==
    IF j > Len(st.w.calls) THEN st
    ELSE IF ~Matches(st.w.calls[j], u) THEN propagate(st, j + 1, u)
    ELSE LET w1 == [st.w EXCEPT !.calls[j].call = u]
         IN  IF u.access_hash # None
             THEN [st EXCEPT
                     !.w = [w1 EXCEPT !.calls[j].call_access_hash = u.access_hash],
                     !.rpcs = Log(@, Rpc("ReceivedCall", u.id, u.access_hash, "None", NoBytes)),
                     !.tasks = Append(@, Task("process_update", "ReceivedCall", j, u))]
             ELSE [st EXCEPT !.w = call_discarded(w1, j)]

Dispatch(w, ts, u, j) == propagate([w |-> w, tasks |-> ts, rpcs |-> rpcs], j, u)

\* Call.check_g: the wrapper catches RuntimeError, check_g raises
\* ValueError, so the exception passes through and call_discarded is not
\* called
Call_check_g(w, i, g_x, p) ==
    IF check_g(g_x, p) THEN w
    ELSE [w EXCEPT !.exc = "ValueError", !.why = "range", !.calls[i].vfail = "range"]

\* IncomingCall.call_accepted without the comparison of g_a_hash with the
\* hash of the revealed value
IncomingCall_call_accepted_no_hash(w, i) ==
    LET c == w.calls[i]
        g_a == b2i(c.call.g_a_or_b)
        w1 == [w EXCEPT !.calls[i].g_a = g_a]
    IN  IF c.call.g_a_or_b = NoBytes
        THEN [call_failed(w, i) EXCEPT !.exc = "return", !.why = "g_a is null"]
        ELSE IF c.dhc = None
        THEN [w1 EXCEPT !.exc = "AttributeError", !.why = "error"]
        ELSE LET w2 == Call_check_g(w1, i, g_a, c.dhc)
                 auth_key == pow(g_a, c.b, c.dhc)
                 fp == calc_fingerprint(i2b(auth_key))
                 w3 == [w2 EXCEPT !.calls[i].auth_key = auth_key,
                                  !.calls[i].key_fingerprint = fp,
                                  !.calls[i].derived = <<g_a, c.dhc, c.g_a_hash>>]
             IN  IF w2.exc # "None" THEN w2
                 ELSE IF fp # c.call.key_fingerprint
                 THEN [call_failed(w3, i) EXCEPT !.exc = "return", !.why = "fingerprint",
                                                 !.calls[i].vfail = "fingerprint"]
                 ELSE w3

\* IncomingCall.call_accepted without the comparison of the fingerprints
IncomingCall_call_accepted_no_fingerprint(w, i) ==
    LET c == w.calls[i]
        g_a == b2i(c.call.g_a_or_b)
        w1 == [w EXCEPT !.calls[i].g_a = g_a]
    IN  IF c.call.g_a_or_b = NoBytes
        THEN [call_failed(w, i) EXCEPT !.exc = "return", !.why = "g_a is null"]
        ELSE IF c.g_a_hash # sha256(c.call.g_a_or_b)
        THEN [call_failed(w, i) EXCEPT !.exc = "return", !.why = "commitment",
                                       !.calls[i].vfail = "commitment"]
        ELSE IF c.dhc = None
        THEN [w1 EXCEPT !.exc = "AttributeError", !.why = "error"]
        ELSE LET w2 == Call_check_g(w1, i, g_a, c.dhc)
                 auth_key == pow(g_a, c.b, c.dhc)
                 fp == calc_fingerprint(i2b(auth_key))
                 w3 == [w2 EXCEPT !.calls[i].auth_key = auth_key,
                                  !.calls[i].key_fingerprint = fp,
                                  !.calls[i].derived = <<g_a, c.dhc, c.g_a_hash>>,
                                  !.calls[i].vfail =
                                      IF fp # c.call.key_fingerprint THEN "fingerprint" ELSE @]
             IN  IF w2.exc # "None" THEN w2 ELSE w3

\* IncomingCall.call_accepted up to _initiate_encrypted_call; exc is "None"
\* when it goes on to _initiate_encrypted_call, "return" after call_failed
IncomingCall_call_accepted(w, i) ==
    LET c == w.calls[i]
        g_a == b2i(c.call.g_a_or_b)
        w1 == [w EXCEPT !.calls[i].g_a = g_a]
    IN  IF c.call.g_a_or_b = NoBytes
        THEN [call_failed(w, i) EXCEPT !.exc = "return", !.why = "g_a is null"]
        ELSE IF c.g_a_hash # sha256(c.call.g_a_or_b)
        THEN [call_failed(w, i) EXCEPT !.exc = "return", !.why = "commitment",
                                       !.calls[i].vfail = "commitment"]
        ELSE IF c.dhc = None
        THEN [w1 EXCEPT !.exc = "AttributeError", !.why = "error"]
        ELSE LET w2 == Call_check_g(w1, i, g_a, c.dhc)
                 auth_key == pow(g_a, c.b, c.dhc)
                 fp == calc_fingerprint(i2b(auth_key))
                 w3 == [w2 EXCEPT !.calls[i].auth_key = auth_key,
                                  !.calls[i].key_fingerprint = fp,
                                  !.calls[i].derived = <<g_a, c.dhc, c.g_a_hash>>]
             IN  IF w2.exc # "None" THEN w2
                 ELSE IF fp # c.call.key_fingerprint
                 THEN [call_failed(w3, i) EXCEPT !.exc = "return", !.why = "fingerprint",
                                                 !.calls[i].vfail = "fingerprint"]
                 ELSE w3

\* process_update of a subclass after Call.process_update returned: an
\* outgoing call that sees PhoneCallAccepted, or an incoming call that sees
\* PhoneCall, and has no auth_key yet enters call_accepted; any other
\* update is passed on to the next handler (ContinuePropagation)
process_update_ReceivedCall(k) ==
    /\ At(k, {"process_update"}, "ReceivedCall")
    /\ LET i == tasks[k].c
           c == calls[i]
       IN  IF c.role = "out" /\ c.call.type = "PhoneCallAccepted" /\ NoAuthKey(c)
           THEN LET w == update_state(World, i, "EXCHANGING_KEYS")
                IN  /\ calls' = w.calls
                    /\ events' = w.events
                    /\ tasks' = Goto(k, "call_accepted.get_dhc")
                    /\ last' = Did("call_accepted", i, "await")
                    /\ UNCHANGED <<active_calls, rpcs>>
           ELSE IF c.role = "in" /\ c.call.type = "PhoneCall" /\ NoAuthKey(c)
           THEN LET w == IncomingCall_call_accepted(World, i)
                IN  /\ calls' = w.calls
                    /\ events' = w.events
                    /\ active_calls' = w.active_calls
                    /\ tasks' = IF w.exc = "None" THEN Goto(k, "GetConfig") ELSE Finish(k)
                    /\ last' = Did("call_accepted", i,
                                   IF w.exc = "None" THEN "await" ELSE w.why)
                    /\ UNCHANGED rpcs
           ELSE LET st == Dispatch(World, Finish(k), tasks[k].u, i + 1)
                IN  /\ calls' = st.w.calls
                    /\ events' = st.w.events
                    /\ active_calls' = st.w.active_calls
                    /\ tasks' = st.tasks
                    /\ rpcs' = st.rpcs
                    /\ last' = Did("process_update", i, "continue")
    /\ UNCHANGED <<sys, auto_answer, allowed_users, active_call, ai>>

\* OutgoingCall.call_accepted from get_dhc to the ConfirmCall RPC.  The
\* modulus is fetched again; self.call may meanwhile be an object without
\* g_b; check_g raises on a value out of range and the handler ends there.
call_accepted_get_dhc(k) ==
    /\ At(k, {"process_update"}, "call_accepted.get_dhc")
    /\ LET i == tasks[k].c
           c == calls[i]
       IN  \/ /\ tasks' = Finish(k)
              /\ last' = Did("call_accepted", i, "error")
              /\ UNCHANGED <<calls, rpcs>>
           \/ \E p \in DHPrimesLater :
                LET g_b == b2i(c.call.g_b)
                    w0 == [World EXCEPT !.calls[i].dhc = p]
                    w1 == IF c.call.type # "PhoneCallAccepted"
                          THEN [w0 EXCEPT !.exc = "AttributeError", !.why = "error"]
                          ELSE Call_check_g([w0 EXCEPT !.calls[i].g_b = g_b], i, g_b, p)
                    auth_key == pow(g_b, c.a, p)
                    fp == calc_fingerprint(i2b(auth_key))
                IN  IF w1.exc # "None"
                    THEN /\ calls' = w1.calls
                         /\ tasks' = Finish(k)
                         /\ last' = Did("call_accepted", i, w1.why)
                         /\ UNCHANGED rpcs
                    ELSE /\ calls' = [w1.calls EXCEPT ![i].auth_key = auth_key,
                                                      ![i].key_fingerprint = fp,
                                                      ![i].derived = <<g_b, p, NoBytes>>]
                         /\ rpcs' = Log(rpcs, Rpc("ConfirmCall", call_id(c),
                                                  c.call_access_hash, "None", i2b(c.g_a)))
                         /\ tasks' = Goto(k, "ConfirmCall")
                         /\ last' = Did("call_accepted", i, "await")
    /\ UNCHANGED <<sys, auto_answer, allowed_users, active_call, active_calls, ai, events>>

\* OutgoingCall.call_accepted after the ConfirmCall RPC: the call keeps the
\* PhoneCall object of the answer and enters _initiate_encrypted_call
call_accepted_ConfirmCall(k) ==
    /\ At(k, {"process_update"}, "ConfirmCall")
    /\ LET i == tasks[k].c
           c == calls[i]
       IN  \/ /\ tasks' = Finish(k)
              /\ last' = Did("call_accepted", i, "error")
              /\ UNCHANGED calls
           \/ /\ calls' = [calls EXCEPT ![i].call =
                              PhoneCall(call_id(c), i2b(c.g_b), c.key_fingerprint)]
              /\ tasks' = Goto(k, "GetConfig")
              /\ last' = Did("call_accepted", i, "await")
    /\ UNCHANGED <<sys, auto_answer, allowed_users, active_call, active_calls, ai,
                   rpcs, events>>

\* CallService._setup_call_audio / Call._start_native_call: the media
\* transport is created and started with auth_key_bytes.  The voice service
\* needs the registered on_call_established and the connections of a
\* PhoneCall object, and schedules _call_timeout (max_duration is 300 unless
\* configured) when it has started the transport.
start_native(w, i) ==
    LET c == w.calls[i]
    IN  IF sys = "bridge" \/ (c.init_handlers /\ c.call.type = "PhoneCall")
        THEN [w EXCEPT !.calls[i].native_instance = TRUE]
        ELSE w

\* Call._initiate_encrypted_call after help.GetConfig, with the handlers it
\* starts and, in the bridge, _start_native_call
initiate_encrypted_call_GetConfig(k) ==
    /\ At(k, {"process_update"}, "GetConfig")
    /\ LET i == tasks[k].c
       IN  \/ /\ last' = Did("_initiate_encrypted_call", i, "error")
              /\ tasks' = Finish(k)
              /\ UNCHANGED <<calls, events>>
           \/ LET w1 == update_state(World, i, "ESTABLISHED")
                  w2 == IF sys = "bridge" THEN w1
                        ELSE [w1 EXCEPT !.events =
                                 Publish(@, Event("call.connected", call_id(calls[i]), "None"))]
                  w  == start_native(w2, i)
              IN  /\ calls' = w.calls
                  /\ events' = w.events
                  /\ tasks' = IF sys = "voice" /\ w.calls[i].native_instance
                              THEN Append(Finish(k), Task("timeout", "sleep", i, NoCall))
                              ELSE Finish(k)
                  /\ last' = Did("_initiate_encrypted_call", i, "ESTABLISHED")
    /\ UNCHANGED <<sys, auto_answer, allowed_users, active_call, active_calls, ai, rpcs>>

\* ------------------------------------------------------ IncomingCall.accept
AcceptOps == {"handle_update", "accept", "auto_answer", "call.answer"}

\* what the caller of IncomingCall.accept does when it returns True or
\* False or raises: _accept_incoming_call registers on_call_established or
\* clears active_call, CallService.accept and call.answer answer the host,
\* _auto_answer_call publishes call.answered or call.error
accept_returned(op, w, i, ret) ==
    LET id == call_id(w.calls[i])
    IN  CASE op = "handle_update" ->
               [w |-> IF ret = "True" THEN [w EXCEPT !.calls[i].init_handlers = TRUE] ELSE w,
                active_call |-> IF ret = "True" THEN active_call ELSE 0]
          [] op = "auto_answer" ->
               [w |-> [w EXCEPT !.events =
                          Publish(@, Event(IF ret = "raise" THEN "call.error" ELSE "call.answered",
                                       id, "None"))],
                active_call |-> active_call]
          [] OTHER -> [w |-> w, active_call |-> active_call]

\* IncomingCall.accept up to the await of get_dhc; ret is "await" when it
\* suspends there
accept_begin(w, i) ==
    LET w1 == update_state(w, i, "EXCHANGING_KEYS")
        c == w.calls[i]
    IN  IF c.call.type = "None"
        THEN [w |-> call_failed(w1, i), ret |-> IF sys = "bridge" THEN "raise" ELSE "False"]
        ELSE IF c.call.type = "PhoneCallDiscarded"
        THEN [w |-> call_discarded(w1, i), ret |-> "False"]
        ELSE [w |-> w1, ret |-> "await"]

\* a step that enters accept for call i on behalf of op; the coroutine is
\* task k, or a new one when k = 0
EnterAccept(op, w, i, k, ac) ==
    LET r == accept_begin(w, i)
        f == accept_returned(op, r.w, i, r.ret)
    IN  IF r.ret = "await"
        THEN /\ calls' = r.w.calls
             /\ events' = r.w.events
             /\ active_calls' = r.w.active_calls
             /\ tasks' = IF k = 0 THEN Append(tasks, Task(op, "accept.get_dhc", i, NoCall))
                         ELSE [tasks EXCEPT ![k] = Task(op, "accept.get_dhc", i, NoCall)]
             /\ active_call' = ac
             /\ last' = Did("accept", i, "await")
        ELSE /\ calls' = f.w.calls
             /\ events' = f.w.events
             /\ active_calls' = f.w.active_calls
             /\ tasks' = IF k = 0 THEN tasks ELSE Finish(k)
             /\ active_call' = IF op = "handle_update" THEN 0 ELSE ac
             /\ last' = Did("accept", i, r.ret)

\* IncomingCall.accept from get_dhc to the AcceptCall RPC; g_a_hash is read
\* from self.call, which an update may have replaced by an object without
\* that field
accept_get_dhc(k) ==
    /\ At(k, AcceptOps, "accept.get_dhc")
    /\ LET i == tasks[k].c
           c == calls[i]
           raised == accept_returned(tasks[k].op, World, i, "raise")
       IN  \/ /\ calls' = raised.w.calls
              /\ events' = raised.w.events
              /\ active_call' = raised.active_call
              /\ tasks' = Finish(k)
              /\ last' = Did("accept", i, "raise")
              /\ UNCHANGED rpcs
           \/ \E p \in DHPrimes, g \in DHGens : \E b \in PrivKeys(p) :
                LET g_b == pow(g, b, p)
                    cs == [calls EXCEPT ![i].dhc = p, ![i].b = b, ![i].g_b = g_b]
                    r2 == accept_returned(tasks[k].op, [World EXCEPT !.calls = cs], i, "raise")
                IN  IF c.call.type # "PhoneCallRequested"
                    THEN /\ calls' = r2.w.calls
                         /\ events' = r2.w.events
                         /\ active_call' = r2.active_call
                         /\ tasks' = Finish(k)
                         /\ last' = Did("accept", i, "raise")
                         /\ UNCHANGED rpcs
                    ELSE /\ calls' = [cs EXCEPT ![i].g_a_hash = c.call.g_a_hash]
                         /\ rpcs' = Log(rpcs, Rpc("AcceptCall", call_id(c),
                                                  c.call_access_hash, "None", i2b(g_b)))
                         /\ tasks' = Goto(k, "accept.AcceptCall")
                         /\ last' = Did("accept", i, "await")
                         /\ UNCHANGED <<events, active_call>>
    /\ UNCHANGED <<sys, auto_answer, allowed_users, active_calls, ai>>

\* IncomingCall.accept after the AcceptCall RPC: the call keeps the object
\* of the answer and accept returns True, or the RPC failed and accept
\* awaits discard_call
accept_AcceptCall(k) ==
    /\ At(k, AcceptOps, "accept.AcceptCall")
    /\ LET i == tasks[k].c
           c == calls[i]
       IN  \/ LET f == accept_returned(tasks[k].op,
                           [World EXCEPT !.calls[i].call = PhoneCallWaiting(call_id(c))],
                           i, "True")
              IN  /\ calls' = f.w.calls
                  /\ events' = f.w.events
                  /\ tasks' = Finish(k)
                  /\ last' = Did("accept", i, "True")
                  /\ UNCHANGED rpcs
           \/ /\ rpcs' = Log(rpcs, DiscardRpc(c, "Disconnect"))
              /\ tasks' = Goto(k, "accept.DiscardCall")
              /\ last' = Did("accept", i, "await")
              /\ UNCHANGED <<calls, events>>
    /\ UNCHANGED <<sys, auto_answer, allowed_users, active_call, active_calls, ai>>

\* IncomingCall.accept after discard_call in the except branch: (the
\* bridge: stop, then) call_discarded and return False; an exception of
\* discard_call or call_discarded leaves accept
accept_DiscardCall(k) ==
    /\ At(k, AcceptOps, "accept.DiscardCall")
    /\ \E outcome \in DiscardOutcomes :
         LET i  == tasks[k].c
             w1 == discard_call_resumed(World, i, outcome)
             w2 == IF w1.exc # "None" THEN w1
                   ELSE call_discarded(IF sys = "bridge" THEN stop(w1, i) ELSE w1, i)
             f  == accept_returned(tasks[k].op, [w2 EXCEPT !.exc = "None"], i,
                                   IF w2.exc = "None" THEN "False" ELSE "raise")
         IN  /\ calls' = f.w.calls
             /\ events' = f.w.events
             /\ active_calls' = f.w.active_calls
             /\ active_call' = f.active_call
             /\ last' = Did("accept", i, IF w2.exc = "None" THEN "False" ELSE "raise")
    /\ tasks' = Finish(k)
    /\ UNCHANGED <<sys, auto_answer, allowed_users, ai, rpcs>>

\* CallService.accept: IncomingCall.accept is entered only for an active
\* call in WAITING_INCOMING
CallService_accept ==
    /\ sys = "voice"
    /\ IF active_call = 0
       THEN /\ last' = Did("accept", 0, "No incoming call")
            /\ UNCHANGED <<calls, events, active_calls, tasks, active_call>>
       ELSE IF calls[active_call].state # "WAITING_INCOMING"
       THEN /\ last' = Did("accept", active_call, "Call not in waiting state")
            /\ UNCHANGED <<calls, events, active_calls, tasks, active_call>>
       ELSE /\ Len(tasks) < MaxTasks
            /\ EnterAccept("accept", World, active_call, 0, active_call)
    /\ UNCHANGED <<sys, auto_answer, allowed_users, ai, rpcs>>

\* --------------------------------------------------- inbound notifications
\* the UpdatePhoneCall objects the messaging network may deliver.  A peer
\* commits to 100 (in range) or 10 (out of range), reveals any value, and
\* sends the fingerprint of the key the call derives from it or another one
GoodFingerprints(u) ==
    {calc_fingerprint(i2b(pow(b2i(u), calls[j].b, calls[j].dhc))) :
        j \in {x \in 1..Len(calls) : calls[x].dhc # None /\ calls[x].b # None}}
\* the ids of the calls there are; an update for any other id is
\* represented by the one for the least unused id
KnownIds == ({call_id(calls[j]) : j \in 1..Len(calls)} \cup {ai.call.id}) \cap CallIds
\* callers: only the bridge looks at the caller's id, for the voice service
\* one caller stands for all
Callers == IF sys = "bridge" THEN Peers ELSE {777}
Updates ==
    UNION {
      {PhoneCallRequested(id, sha256(i2b(v)), adm) : v \in Committed, adm \in Callers}
      \cup {PhoneCallAccepted(id, i2b(v)) : v \in UNION {PeerValues(p) : p \in DHPrimes}}
      \cup UNION {{PhoneCall(id, i2b(v), fp) :
                     fp \in GoodFingerprints(i2b(v)) \cup {BadFingerprint}} :
                  v \in Revealed}
      \cup {PhoneCallDiscarded(id, r) : r \in DiscardReasons}
      : id \in KnownIds \cup FreshIds}

\* CallService._handle_update for the update u, and the handlers of the
\* calls after it: call.incoming is published for every PhoneCallRequested,
\* and with auto_answer and no active call the handler sleeps for
\* auto_answer_delay before it accepts
handle_update(u) ==
    /\ sys = "voice"
    /\ LET req == u.type = "PhoneCallRequested"
           ev  == IF req THEN Publish(events, Event("call.incoming", u.id, "None")) ELSE events
           ts  == IF req /\ auto_answer /\ active_call = 0
                  THEN Append(tasks, Task("handle_update", "sleep", 0, u))
                  ELSE tasks
           st  == Dispatch([World EXCEPT !.events = ev], ts, u, 1)
       IN  /\ Len(st.tasks) <= MaxTasks
           /\ calls' = st.w.calls
           /\ events' = st.w.events
           /\ tasks' = st.tasks
           /\ rpcs' = st.rpcs
    /\ last' = Did("update", 0, u.type)
    /\ UNCHANGED <<sys, auto_answer, allowed_users, active_call, active_calls, ai>>

\* CallService._accept_incoming_call after the sleep of _handle_update: the
\* IncomingCall is constructed (its handler registered, WAITING_INCOMING),
\* made the active call and accepted
accept_incoming_call(k) ==
    /\ At(k, {"handle_update"}, "sleep")
    /\ Len(calls) < MaxCalls
    /\ LET u == tasks[k].u
           i == Len(calls) + 1
           w == [World EXCEPT !.calls = Append(calls,
                    [NewCall("in", u.admin_id) EXCEPT !.handler = TRUE,
                        !.state = "WAITING_INCOMING", !.call = u,
                        !.call_access_hash = u.access_hash])]
       IN  EnterAccept("handle_update", w, i, k, i)
    /\ UNCHANGED <<sys, auto_answer, allowed_users, ai, rpcs>>

\* is_user_allowed without the membership test
is_user_allowed_everyone(user_id) ==
    TRUE

\* TelegramTextBridge.is_user_allowed
is_user_allowed(user_id) ==
    IF allowed_users = {} THEN TRUE ELSE user_id \in allowed_users

\* TelegramTextBridge._handle_raw_update for the update u, and the handlers
\* of the calls after it.  A PhoneCallRequested of an allowed caller makes
\* an IncomingCall (WAITING_INCOMING is published before self.call is set),
\* registers its handler, enters it into _active_calls under the call id and
\* publishes call.incoming; with _auto_answer it starts _auto_answer_call.
handle_raw_update(u) ==
    /\ sys = "bridge"
    /\ LET req == u.type = "PhoneCallRequested"
           st  == Dispatch(World, tasks, u, 1)
           i   == Len(calls) + 1
           w1  == update_state([st.w EXCEPT !.calls = Append(@,
                      [NewCall("in", u.admin_id) EXCEPT !.handler = TRUE])],
                      i, "WAITING_INCOMING")
           w2  == [w1 EXCEPT !.calls[i].call = u,
                             !.calls[i].call_access_hash = u.access_hash,
                             !.active_calls = (u.id :> i) @@ @,
                             !.events = Publish(@, Event("call.incoming", u.id, "None"))]
       IN  IF req /\ ~is_user_allowed(u.admin_id)
           THEN /\ Len(st.tasks) <= MaxTasks
                /\ calls' = st.w.calls
                /\ active_calls' = st.w.active_calls
                /\ events' = Publish(st.w.events, Event("call.rejected", u.id, "not_allowed"))
                /\ tasks' = st.tasks
                /\ rpcs' = st.rpcs
                /\ last' = Did("update", 0, "call.rejected")
           ELSE IF req
           THEN /\ Len(calls) < MaxBridgeCalls
                /\ Len(st.tasks) + (IF auto_answer THEN 1 ELSE 0) <= MaxTasks
                /\ calls' = w2.calls
                /\ active_calls' = w2.active_calls
                /\ events' = w2.events
                /\ tasks' = IF auto_answer
                            THEN Append(st.tasks, Task("auto_answer", "sleep", i, NoCall))
                            ELSE st.tasks
                /\ rpcs' = st.rpcs
                /\ last' = Did("update", i, "call.incoming")
           ELSE /\ Len(st.tasks) <= MaxTasks
                /\ calls' = st.w.calls
                /\ active_calls' = st.w.active_calls
                /\ events' = st.w.events
                /\ tasks' = st.tasks
                /\ rpcs' = st.rpcs
                /\ last' = Did("update", 0, u.type)
    /\ UNCHANGED <<sys, auto_answer, allowed_users, active_call, ai>>

\* TelegramTextBridge._auto_answer_call after its sleep
auto_answer_call(k) ==
    /\ At(k, {"auto_answer"}, "sleep")
    /\ EnterAccept("auto_answer", World, tasks[k].c, k, active_call)
    /\ UNCHANGED <<sys, auto_answer, allowed_users, ai, rpcs>>

\* TelegramTextBridge.handle_request, action call.answer: without a call_id
\* the first IncomingCall in WAITING_INCOMING is taken; a call_id that is in
\* _active_calls is accepted whatever its state
handle_request_call_answer(id) ==
    /\ sys = "bridge" /\ BridgeIdle
    /\ id \in CallIds \cup {0}
    /\ LET ids  == DOMAIN active_calls
           pend == {x \in ids : calls[active_calls[x]].role = "in"
                                /\ calls[active_calls[x]].state = "WAITING_INCOMING"}
           cid  == IF id # 0 THEN id
                   ELSE IF pend = {} THEN 0
                   ELSE CHOOSE x \in pend : \A y \in pend : active_calls[x] <= active_calls[y]
       IN  IF cid = 0 \/ cid \notin ids
           THEN /\ last' = Did("call.answer", 0, "No pending incoming call")
                /\ UNCHANGED <<calls, events, active_calls, tasks, active_call>>
           ELSE IF calls[active_calls[cid]].role # "in"
           THEN /\ last' = Did("call.answer", active_calls[cid], "Not an incoming call")
                /\ UNCHANGED <<calls, events, active_calls, tasks, active_call>>
           ELSE /\ Len(tasks) < MaxTasks
                /\ EnterAccept("call.answer", World, active_calls[cid], 0, active_call)
    /\ UNCHANGED <<sys, auto_answer, allowed_users, ai, rpcs>>

\* ----------------------------------------------------------- signaling data
SigUnchanged ==
    UNCHANGED <<sys, auto_answer, allowed_users, calls, active_call, active_calls,
                ai, tasks, rpcs, events, inputs, subs>>

\* the calls whose media transport is handed an UpdatePhoneCallSignalingData:
\* Call.process_update of every call whose handler is on the client and
\* that has a native_instance, and in the bridge _handle_raw_update for the
\* calls of _active_calls that have one; the phone_call_id of the update is
\* not looked at
SignalTargets ==
    {i \in 1..Len(calls) : calls[i].handler /\ calls[i].native_instance}
    \cup (IF sys = "bridge"
          THEN {active_calls[x] : x \in {y \in DOMAIN active_calls :
                                           calls[active_calls[y]].native_instance}}
          ELSE {})

\* how many times one UpdatePhoneCallSignalingData is handed to the media
\* transport of call i: once by the call's own handler, and in the bridge
\* once more for every entry of _active_calls that is this call
receiveSignalingData(i) ==
    (IF calls[i].handler /\ calls[i].native_instance THEN 1 ELSE 0)
    + (IF sys = "bridge" /\ calls[i].native_instance
       THEN Cardinality({x \in DOMAIN active_calls : active_calls[x] = i})
       ELSE 0)

\* an UpdatePhoneCallSignalingData for the call id arrives, one of the
\* notifications of the network; when no call has a media transport
\* nothing at all happens, and that step is left out
receive_signaling_data(id) ==
    /\ sys \in {"voice", "bridge"}
    /\ sig.n < MaxBlobs
    /\ inputs < MaxInputs
    /\ SignalTargets # {}
    /\ sig' = [sig EXCEPT !.n = @ + 1, !.id = id, !.into = SignalTargets,
                          !.times = [i \in SignalTargets |-> receiveSignalingData(i)]]
    /\ last' = Did("receiveSignalingData", 0, "injected")
    /\ inputs' = inputs + 1
    /\ UNCHANGED <<sys, auto_answer, allowed_users, calls, active_call, active_calls,
                   ai, tasks, rpcs, events, subs>>

\* Call.signalling_data_emitted_callback: the media transport of call i,
\* which nothing stops once it is started, emits a blob and a coroutine
\* that will send it is scheduled (asyncio.ensure_future)
signalling_data_emitted_callback(i) ==
    /\ sys \in {"voice", "bridge"}
    /\ i \in 1..Len(calls) /\ calls[i].native_instance
    /\ sig.n < MaxBlobs
    /\ sig' = [sig EXCEPT !.n = @ + 1,
                          !.sendq = Append(@, [c |-> i, blob |-> sig.n + 1])]
    /\ last' = Did("signalling_data_emitted_callback", i, "scheduled")
    /\ SigUnchanged

\* the scheduled coroutines run in a later order than the one they were
\* scheduled in
send_signaling_data_any_order ==
    /\ sig.sendq # << >>
    /\ \E j \in 1..Len(sig.sendq) :
         /\ sig' = [sig EXCEPT
                      !.sendq = SubSeq(@, 1, j - 1) \o SubSeq(@, j + 1, Len(@)),
                      !.sent = Append(@, [c |-> sig.sendq[j].c, blob |-> sig.sendq[j].blob,
                                          id |-> call_id(calls[sig.sendq[j].c])])]
         /\ last' = Did("SendSignalingData", sig.sendq[j].c, "await")
    /\ SigUnchanged

\* the event loop runs the scheduled coroutines in the order they were
\* scheduled in; each one calls client.invoke(SendSignalingData) for the
\* call id the call has then, and nobody waits for its result
send_signaling_data ==
    /\ sig.sendq # << >>
    /\ sig' = [sig EXCEPT
                 !.sendq = Tail(@),
                 !.sent = Append(@, [c |-> Head(sig.sendq).c, blob |-> Head(sig.sendq).blob,
                                     id |-> call_id(calls[Head(sig.sendq).c])])]
    /\ last' = Did("SendSignalingData", Head(sig.sendq).c, "await")
    /\ SigUnchanged

\* ------------------------------------------------------------ AiortcP2PCall
\* request_call and hangup are called from handle_request, one at a time
AiCmdOps == {"ai.request_call", "ai.hangup"}
AiIdle == \A k \in 1..Len(tasks) : tasks[k].op \notin AiCmdOps

AiUnchanged == UNCHANGED <<sys, auto_answer, allowed_users, calls, active_call, active_calls>>

\* AiortcP2PCall.request_call up to the await of GetDhConfig
request_call(user) ==
    /\ sys = "aiortc" /\ AiIdle
    /\ Len(tasks) < MaxTasks
    /\ ai' = [ai EXCEPT !.state = "REQUESTING", !.user_id = user]
    /\ tasks' = Append(tasks, Task("ai.request_call", "GetDhConfig", 0, NoCall))
    /\ last' = Did("request_call", 0, "await")
    /\ UNCHANGED <<rpcs, events>>
    /\ AiUnchanged

\* request_call from GetDhConfig to the RequestCall RPC; the generated g_a
\* goes through check_g, and every exception ends in the state FAILED
request_call_GetDhConfig(k) ==
    /\ At(k, {"ai.request_call"}, "GetDhConfig")
    /\ \/ /\ ai' = [ai EXCEPT !.state = "FAILED"]
          /\ tasks' = Finish(k)
          /\ last' = Did("request_call", 0, "error")
          /\ UNCHANGED rpcs
       \/ \E p \in DHPrimes, g \in DHGens : \E a \in PrivKeys(p) :
            LET g_a == pow(g, a, p)
                g_a_hash == sha256(i2b(g_a))
            IN  IF ~check_g(g_a, p)
                THEN /\ ai' = [ai EXCEPT !.private_key = a, !.g_a = g_a, !.state = "FAILED"]
                     /\ tasks' = Finish(k)
                     /\ last' = Did("request_call", 0, "error")
                     /\ UNCHANGED rpcs
                ELSE /\ ai' = [ai EXCEPT !.private_key = a, !.g_a = g_a,
                                         !.g_a_hash = g_a_hash]
                     /\ rpcs' = Log(rpcs, Rpc("RequestCall", 0, None, "None", g_a_hash))
                     /\ tasks' = Goto(k, "RequestCall")
                     /\ last' = Did("request_call", 0, "await")
    /\ UNCHANGED events
    /\ AiUnchanged

\* request_call after the RequestCall RPC
request_call_RequestCall(k) ==
    /\ At(k, {"ai.request_call"}, "RequestCall")
    /\ \/ /\ ai' = [ai EXCEPT !.state = "FAILED"]
          /\ last' = Did("request_call", 0, "error")
          /\ UNCHANGED events
       \/ \E id \in FreshIds :
            /\ ai' = [ai EXCEPT !.call = PhoneCallWaiting(id),
                                !.call_access_hash = AccessHash,
                                !.call_id = id, !.state = "WAITING"]
            /\ events' = Publish(events, Event("call.ringing", id, "None"))
            /\ last' = Did("request_call", 0, "ringing")
    /\ tasks' = Finish(k)
    /\ UNCHANGED rpcs
    /\ AiUnchanged

\* AiortcP2PCall.hangup up to the await of the DiscardCall RPC: the peer
\* connection is closed and dropped, the RPC is issued with reason Hangup.
\* ret is "await" when it suspends there.
ai_hangup_begin(o) ==
    IF o.call.type = "None"
    THEN [ai |-> o, rpcs |-> rpcs, ret |-> "No active call"]
    ELSE [ai |-> [o EXCEPT !.pc = FALSE],
          rpcs |-> Log(rpcs, Rpc("DiscardCall", o.call.id, o.call_access_hash,
                                 "Hangup", NoBytes)),
          ret |-> "await"]

\* handle_request, action call.hangup with aiortc: hangup is called unless
\* the state is IDLE
ai_hangup ==
    /\ sys = "aiortc" /\ AiIdle
    /\ IF ai.state = "IDLE"
       THEN /\ last' = Did("call.hangup", 0, "No active call")
            /\ UNCHANGED <<ai, rpcs, tasks>>
       ELSE LET r == ai_hangup_begin(ai)
            IN  /\ (r.ret = "await" => Len(tasks) < MaxTasks)
                /\ ai' = r.ai
                /\ rpcs' = r.rpcs
                /\ tasks' = IF r.ret = "await"
                            THEN Append(tasks, Task("ai.hangup", "hangup.DiscardCall", 0, NoCall))
                            ELSE tasks
                /\ last' = Did("ai.hangup", 0, r.ret)
    /\ UNCHANGED events
    /\ AiUnchanged

\* hangup after the DiscardCall RPC: ENDED and call.ended, or the error of
\* the RPC is returned and the state stays
ai_hangup_DiscardCall(k) ==
    /\ At(k, {"ai.hangup", "ai.process_update"}, "hangup.DiscardCall")
    /\ \/ /\ ai' = [ai EXCEPT !.state = "ENDED"]
          /\ events' = Publish(events, Event("call.ended", ai.call.id, "hangup"))
          /\ last' = Did("ai.hangup", 0, "ended")
       \/ /\ last' = Did("ai.hangup", 0, "error")
          /\ UNCHANGED <<ai, events>>
    /\ tasks' = Finish(k)
    /\ UNCHANGED rpcs
    /\ AiUnchanged

\* AiortcP2PCall._process_update for the update u up to its first await:
\* PhoneCallAccepted enters _confirm_call (await of GetDhConfig), PhoneCall
\* sets ACTIVE and runs _setup_webrtc (a failure of which enters hangup),
\* PhoneCallDiscarded runs _handle_call_ended
ai_process_update(u) ==
    /\ sys = "aiortc"
    /\ IF ai.call.type = "None" \/ u.id # ai.call.id
       THEN /\ last' = Did("update", 0, "ignored")
            /\ UNCHANGED <<ai, tasks, rpcs, events>>
       ELSE LET o == [ai EXCEPT !.call = u,
                         !.call_access_hash =
                            IF u.access_hash # None THEN u.access_hash ELSE @]
            IN  CASE u.type = "PhoneCallAccepted" ->
                       /\ Len(tasks) < MaxTasks
                       /\ ai' = o
                       /\ tasks' = Append(tasks, Task("ai.process_update",
                                                      "confirm.GetDhConfig", 0, u))
                       /\ last' = Did("_confirm_call", 0, "await")
                       /\ UNCHANGED <<rpcs, events>>
                  [] u.type = "PhoneCall" ->
                       \/ /\ ai' = [o EXCEPT !.state = "ACTIVE", !.pc = TRUE]
                          /\ events' = Publish(events, Event("call.connected", u.id, "None"))
                          /\ last' = Did("_setup_webrtc", 0, "connected")
                          /\ UNCHANGED <<tasks, rpcs>>
                       \/ LET r == ai_hangup_begin([o EXCEPT !.state = "ACTIVE", !.pc = TRUE])
                          IN  /\ Len(tasks) < MaxTasks
                              /\ ai' = r.ai
                              /\ rpcs' = r.rpcs
                              /\ tasks' = Append(tasks, Task("ai.process_update",
                                                             "hangup.DiscardCall", 0, u))
                              /\ last' = Did("_setup_webrtc", 0, "error")
                              /\ UNCHANGED events
                  [] u.type = "PhoneCallDiscarded" ->
                       /\ ai' = [o EXCEPT !.state = "ENDED"]
                       /\ events' = Publish(events, Event("call.ended", u.id, u.reason))
                       /\ last' = Did("_handle_call_ended", 0, u.reason)
                       /\ UNCHANGED <<tasks, rpcs>>
                  [] OTHER ->
                       /\ ai' = o
                       /\ last' = Did("update", 0, u.type)
                       /\ UNCHANGED <<tasks, rpcs, events>>
    /\ AiUnchanged

\* _confirm_call from GetDhConfig to the ConfirmCall RPC: g_b of the
\* accepted call is checked against the modulus fetched now, the key is
\* derived with self.private_key; an exception enters hangup
confirm_call_GetDhConfig(k) ==
    /\ At(k, {"ai.process_update"}, "confirm.GetDhConfig")
    /\ \E p \in DHPrimesLater, ok \in BOOLEAN :
         LET g_b == b2i(tasks[k].u.g_b)
             auth_key == i2b(pow(g_b, ai.private_key, p))
             bad == ~check_g(g_b, p)
             o == IF ok /\ bad THEN [ai EXCEPT !.vfail = "range"] ELSE ai
             r == ai_hangup_begin(o)
         IN  IF ok /\ ~bad
             THEN /\ ai' = [ai EXCEPT !.auth_key = auth_key,
                                      !.key_fingerprint = calc_fingerprint(auth_key),
                                      !.derived = <<g_b, p>>]
                  /\ rpcs' = Log(rpcs, Rpc("ConfirmCall", ai.call.id, ai.call_access_hash,
                                           "None", i2b(ai.g_a)))
                  /\ tasks' = Goto(k, "confirm.ConfirmCall")
                  /\ last' = Did("_confirm_call", 0, "await")
             ELSE /\ ai' = r.ai
                  /\ rpcs' = r.rpcs
                  /\ tasks' = IF r.ret = "await" THEN Goto(k, "hangup.DiscardCall")
                              ELSE Finish(k)
                  /\ last' = Did("_confirm_call", 0, IF ok THEN "range" ELSE "error")
    /\ UNCHANGED events
    /\ AiUnchanged

\* _confirm_call after the ConfirmCall RPC
confirm_call_ConfirmCall(k) ==
    /\ At(k, {"ai.process_update"}, "confirm.ConfirmCall")
    /\ \/ /\ tasks' = Finish(k)
          /\ last' = Did("_confirm_call", 0, "confirmed")
          /\ UNCHANGED <<ai, rpcs>>
       \/ LET r == ai_hangup_begin(ai)
          IN  /\ ai' = r.ai
              /\ rpcs' = r.rpcs
              /\ tasks' = IF r.ret = "await" THEN Goto(k, "hangup.DiscardCall")
                          ELSE Finish(k)
              /\ last' = Did("_confirm_call", 0, "error")
    /\ UNCHANGED events
    /\ AiUnchanged

\* ------------------------------------------------------------ specification
\* a command or a notification, and a step of a suspended coroutine
Input(A) == inputs < MaxInputs /\ A /\ inputs' = inputs + 1 /\ UNCHANGED <<sig, subs>>
Resume(A) == A /\ UNCHANGED <<inputs, sig, subs>>

\* the steps of the Call objects, shared by the voice service and the bridge
SignalingSteps ==
    \/ \E id \in KnownIds \cup FreshIds : receive_signaling_data(id)
    \/ \E i \in 1..Len(calls) : signalling_data_emitted_callback(i)
    \/ send_signaling_data

CallSteps ==
    \/ \E k \in 1..Len(tasks) : Resume(request_get_dhc(k))
    \/ \E k \in 1..Len(tasks) : Resume(request_RequestCall(k))
    \/ \E k \in 1..Len(tasks) : Resume(accept_get_dhc(k))
    \/ \E k \in 1..Len(tasks) : Resume(accept_AcceptCall(k))
    \/ \E k \in 1..Len(tasks) : Resume(accept_DiscardCall(k))
    \/ \E k \in 1..Len(tasks) : Resume(process_update_ReceivedCall(k))
    \/ \E k \in 1..Len(tasks) : Resume(call_accepted_get_dhc(k))
    \/ \E k \in 1..Len(tasks) : Resume(call_accepted_ConfirmCall(k))
    \/ \E k \in 1..Len(tasks) : Resume(initiate_encrypted_call_GetConfig(k))

NextVoice ==
    \/ \E user \in Callees : Input(start_call(user))
    \/ Input(hangup)
    \/ \E k \in 1..Len(tasks) : Resume(hangup_DiscardCall(k))
    \/ \E u \in Updates : Input(handle_update(u))
    \/ \E k \in 1..Len(tasks) : Resume(accept_incoming_call(k))
    \/ \E i \in 1..Len(calls) : Resume(remove_handler(i))
    \/ Input(CallService_accept)
    \/ Input(CallService_reject)
    \/ \E k \in 1..Len(tasks) : Resume(call_timeout(k))
    \/ \E k \in 1..Len(tasks) : Resume(call_timeout_goodbye(k))
    \/ CallSteps
    \/ SignalingSteps

NextBridge ==
    \/ \E user \in Callees : Input(handle_request_call_start(user))
    \/ \E id \in CallIds \cup {0} : Input(handle_request_call_hangup(id))
    \/ \E k \in 1..Len(tasks) : Resume(call_hangup_DiscardCall(k))
    \/ \E u \in Updates : Input(handle_raw_update(u))
    \/ \E k \in 1..Len(tasks) : Resume(auto_answer_call(k))
    \/ \E id \in CallIds \cup {0} : Input(handle_request_call_answer(id))
    \/ CallSteps
    \/ SignalingSteps

NextAiortc ==
    \/ \E user \in Callees : Input(request_call(user))
    \/ \E k \in 1..Len(tasks) : Resume(request_call_GetDhConfig(k))
    \/ \E k \in 1..Len(tasks) : Resume(request_call_RequestCall(k))
    \/ Input(ai_hangup)
    \/ \E k \in 1..Len(tasks) : Resume(ai_hangup_DiscardCall(k))
    \/ \E u \in Updates : Input(ai_process_update(u))
    \/ \E k \in 1..Len(tasks) : Resume(confirm_call_GetDhConfig(k))
    \/ \E k \in 1..Len(tasks) : Resume(confirm_call_ConfirmCall(k))

Next == NextVoice \/ NextBridge \/ NextAiortc

\* every front end
Spec == Init /\ [][Next]_vars

\* one front end each
InitVoice == Init /\ sys = "voice"
InitBridge == Init /\ sys = "bridge"
InitAiortc == Init /\ sys = "aiortc"
SpecVoice == InitVoice /\ [][NextVoice]_vars
SpecBridge == InitBridge /\ [][NextBridge]_vars
SpecAiortc == InitAiortc /\ [][NextAiortc]_vars

\* ------------------------------------------------- CallService.emit_event
\* the events the voice service emits, per call id
EmitEvents ==
    {Event(t, id, "None") : t \in {"call.incoming", "call.connected", "call.ended"},
                           id \in CallIds}

\* the loop of emit_event without its try / except: the exception of a
\* handler ends the loop and leaves emit_event
RECURSIVE call_handlers_uncaught(_, _, _, _)
call_handlers_uncaught(got, h, e, f) ==
    IF h > MaxHandlers THEN [got |-> got, raised |-> FALSE]
    ELSE LET g1 == [got EXCEPT ![h] = @ \cup {e}]
         IN  IF h \in f THEN [got |-> g1, raised |-> TRUE]
             ELSE call_handlers_uncaught(g1, h + 1, e, f)

\* the loop of emit_event from handler h on: each handler is called with
\* the event e; the handlers of f raise, which is caught and logged before
\* the next handler is called
RECURSIVE call_handlers(_, _, _, _)
call_handlers(got, h, e, f) ==
    IF h > MaxHandlers THEN [got |-> got, raised |-> FALSE]
    ELSE LET g1 == [got EXCEPT ![h] = @ \cup {e}]
         IN  call_handlers(g1, h + 1, e, f)

\* CallService.emit_event(e) while the handlers of f raise
emit_event(e, f) ==
    /\ LET r == call_handlers(subs.got, 1, e, f)
       IN  subs' = [emitted |-> subs.emitted \cup {e}, got |-> r.got,
                    failed |-> f, raised |-> r.raised]
    /\ UNCHANGED <<sys, auto_answer, allowed_users, calls, active_call, active_calls,
                   ai, tasks, rpcs, events, last, inputs, sig>>

NextEmit == \E e \in EmitEvents, f \in SUBSET (1..MaxHandlers) : emit_event(e, f)
SpecEmit == InitVoice /\ [][NextEmit]_vars

TypeOK == Len(calls) <= MaxCalls /\ Len(calls) <= MaxBridgeCalls + 1 /\ Len(tasks) <= MaxTasks

\* ---------------------------------------------------------------- properties
\* the number of entries of the bag B that satisfy P
CountIn(B, P(_)) ==
    LET S == {x \in BagToSet(B) : P(x)}
    IN  IF S = {} THEN 0 ELSE BagCardinality([e \in S |-> B[e]])

\* terminal events published for the call id, DiscardCall RPCs issued for it
TerminalEvents(id) ==
    CountIn(events, LAMBDA e : e.type \in {"call.ended", "call.failed"} /\ e.call_id = id)
DiscardCalls(id) ==
    CountIn(rpcs, LAMBDA r : r.op = "DiscardCall" /\ r.id = id)

\* both bounds of the range validation, written out
InRange(v, p) == 1 < v /\ v < p - 1 /\ twoe1984 < v /\ v < p - twoe1984

ValidationFailures == {"range", "commitment", "fingerprint"}

\* C1: for every call the host receives at most one terminal event
\* (call.ended / call.failed), whatever the order of hangup, remote discard
\* and validation failure.
C1_OneTerminalEvent ==
    \A id \in CallIds : TerminalEvents(id) <= 1

\* C2: a call whose state is ENDED, FAILED or BUSY keeps that state in
\* every later step of a hangup or reject command and of the handling of an
\* inbound notification.
C2_TerminalAbsorbing ==
    [][last'.op \in {"hangup", "reject", "update", "ai.hangup", "_setup_webrtc"} =>
          /\ \A i \in 1..Len(calls) :
                calls[i].state \in Terminal => calls'[i].state = calls[i].state
          /\ ai.state \in Terminal => ai'.state = ai.state]_vars

\* C3: hangup of the voice service, called twice on the same call, issues
\* one DiscardCall RPC: an outgoing call, for which only hangup issues
\* that RPC, never has two of them.
C3_HangupTwiceOneDiscard ==
    \A i \in 1..Len(calls) :
        calls[i].role = "out" => DiscardCalls(call_id(calls[i])) <= 1

\* C4: AiortcP2PCall.hangup on a call that has ended returns 'No active
\* call' and issues no RPC: a hangup that has just issued the DiscardCall
\* RPC was not called in the state ENDED.
C4_HangupAfterEnd ==
    last = Did("ai.hangup", 0, "await") => ai.state # "ENDED"

\* C5: a call that holds a shared secret derived it from a peer value v
\* with 1 < v < p - 1 and 2^1984 < v < p - 2^1984.
C5_KeyFromValueInRange ==
    /\ \A i \in 1..Len(calls) :
          calls[i].auth_key # None =>
             /\ calls[i].derived # << >>
             /\ InRange(calls[i].derived[1], calls[i].derived[2])
    /\ ai.auth_key # NoBytes =>
          /\ ai.derived # << >>
          /\ InRange(ai.derived[1], ai.derived[2])
C5_Witness ==
    \/ \E i \in 1..Len(calls) : calls[i].auth_key # None /\ calls[i].derived # << >>
    \/ ai.auth_key # NoBytes

\* C6: when call_accepted ends because the peer's value is out of range,
\* the call is in the state FAILED.
C6_RangeFailureFails ==
    (last.op = "call_accepted" /\ last.result = "range") =>
        calls[last.c].state = "FAILED"

C8_FingerprintMismatch ==
    /\ (last.op = "call_accepted" /\ last.result = "fingerprint") =>
          calls[last.c].state = "FAILED"
    /\ \A i \in 1..Len(calls) :
          (calls[i].role = "in" /\ calls[i].vfail = "fingerprint") =>
             /\ calls[i].state # "ESTABLISHED"
             /\ ~calls[i].native_instance
C8_Witness ==
    /\ last.op = "call_accepted" /\ last.result = "fingerprint"
    /\ calls[last.c].role = "in"
    /\ calls[last.c].auth_key # None

\* C9: when call_accepted ends with a validation failure, a DiscardCall
\* RPC with the reason Disconnect has been issued for that call.
C9_DiscardOnValidationFailure ==
    (last.op = "call_accepted" /\ last.result \in ValidationFailures) =>
        \E r \in BagToSet(rpcs) :
            /\ r.op = "DiscardCall" /\ r.reason = "Disconnect"
            /\ r.id = call_id(calls[last.c])

\* C10 as stated: every incoming call object of the bridge is for a
\* caller in allowed_users.
C10_OnlyAllowedCallers ==
    \A i \in 1..Len(calls) :
        calls[i].role = "in" => calls[i].user_id \in allowed_users

\* C10: with a non-empty allowed_users, a PhoneCallRequested from a
\* caller outside it makes no call object: every incoming call object,
\* every entry of _active_calls and every _auto_answer_call is for a caller
\* in allowed_users.
C10_OnlyAllowedCallersWhenListed ==
    allowed_users # {} =>
        /\ \A i \in 1..Len(calls) :
              calls[i].role = "in" => calls[i].user_id \in allowed_users
        /\ \A id \in DOMAIN active_calls :
              calls[active_calls[id]].role = "in" =>
                 calls[active_calls[id]].user_id \in allowed_users
        /\ \A k \in 1..Len(tasks) :
              tasks[k].op = "auto_answer" => calls[tasks[k].c].user_id \in allowed_users
C10_Witness ==
    /\ allowed_users # {}
    /\ last = Did("update", 0, "call.rejected")
    /\ Len(calls) = 0

\* C11: when the bridge has handled a PhoneCallRequested of a caller
\* outside allowed_users, a DiscardCall RPC with the reason Busy has been
\* issued.
C11_RejectedCallerDiscarded ==
    last = Did("update", 0, "call.rejected") =>
        \E r \in BagToSet(rpcs) : r.op = "DiscardCall" /\ r.reason = "Busy"

\* an allow-list that leaves out the caller 777
AllowList == {555}

\* C12: the voice service makes and accepts an IncomingCall only for a
\* caller on the allow-list.
C12_OnlyListedAutoAnswered ==
    sys = "voice" =>
        \A i \in 1..Len(calls) : calls[i].role = "in" => calls[i].user_id \in AllowList

\* C14: with auto_answer off, after the voice service has handled a
\* PhoneCallRequested there is an incoming call in WAITING_INCOMING (which
\* accept would move to EXCHANGING_KEYS).
C14_ManualAnswerWaits ==
    (sys = "voice" /\ ~auto_answer /\ last = Did("update", 0, "PhoneCallRequested")) =>
        \E i \in 1..Len(calls) :
            calls[i].role = "in" /\ calls[i].state = "WAITING_INCOMING"

\* the states of AiortcP2PCall in which a call is pending or active
AiLive == {"REQUESTING", "WAITING", "ACTIVE"}

\* C15: a call.start that finds a call pending or active is refused: the
\* steps in which request_call starts its coroutine are taken only when no
\* call is pending or active.
C15_SingleOutgoing ==
    [][(last'.op = "request_call" /\ Len(tasks') > Len(tasks)) =>
          ai.state \notin AiLive]_vars

\* C16: the voice service never has two calls in a non-terminal state at
\* the same time; only calls the messaging network knows (those that hold a
\* phone_call object) are counted.
C16_OneLiveCall ==
    sys = "voice" =>
        Cardinality({i \in 1..Len(calls) :
                        calls[i].state \notin Terminal /\ calls[i].call.type # "None"}) <= 1

\* C17: a call in a terminal state is out of the registry: start_call is
\* refused with 'Another call is active' only because of a call that is
\* not in a terminal state.
C17_FinishedCallUnregistered ==
    last = Did("start_call", 0, "Another call is active") =>
        calls[active_call].state \notin Terminal

\* the order of the states in C18, and the steps along it
FiveStates == <<"REQUESTING", "WAITING", "EXCHANGING_KEYS", "ESTABLISHED", "ACTIVE">>
NextOfFive(s, t) == \E n \in 1..4 : FiveStates[n] = s /\ FiveStates[n + 1] = t

C19_AcceptOnlyWaiting ==
    [][(last'.op = "accept" /\ last'.result = "await" /\ Len(tasks') > Len(tasks)) =>
          calls[last'.c].state = "WAITING_INCOMING"]_vars

\* C20: a reject command issues the DiscardCall RPC only for an
\* incoming call in WAITING_INCOMING.
C20_RejectOnlyWaiting ==
    (last.op = "reject" /\ last.result = "await") =>
        /\ calls[last.c].role = "in"
        /\ calls[last.c].state = "WAITING_INCOMING"


\* C21: a hangup of a call that is not in a terminal state leaves the
\* call in ENDED when it returns, whether the DiscardCall RPC succeeded or
\* failed
C21_HangupEndsCall ==
    (last.op = "ai.hangup" /\ last.result \in {"ended", "error"})
        => ai.state = "ENDED"

\* C22: with a positive maximum call duration, an ESTABLISHED call of
\* CallService that no other coroutine is still working on is covered by a
\* pending _call_timeout task for it, which is what discards it when the
\* duration is over
C22_EstablishedCallHasTimer ==
    sys = "voice" =>
        \A i \in 1..Len(calls) :
            (/\ calls[i].state = "ESTABLISHED"
             /\ \A k \in 1..Len(tasks) : tasks[k].c = i => tasks[k].op = "timeout")
                => \E k \in 1..Len(tasks) : tasks[k].op = "timeout" /\ tasks[k].c = i

\* C23: the _call_timeout task of a call issues its DiscardCall RPC only
\* while the call has not ended: when the task has just issued it after its
\* goodbye wait, the call is not in a terminal state
C23_TimerStopsWithCall ==
    \A k \in 1..Len(tasks) :
        (/\ tasks[k].op = "timeout" /\ tasks[k].pc = "DiscardCall"
         /\ last = Did("timeout", tasks[k].c, "await"))
            => calls[tasks[k].c].state \notin Terminal

\* C24: a call does not stay in WAITING or WAITING_INCOMING once nothing
\* is pending: while a call rings, some task (a ring timer) is there to
\* discard it without a command or a notification
C24_RingingCallHasTimer ==
    (\E i \in 1..Len(calls) : calls[i].state \in {"WAITING", "WAITING_INCOMING"})
        => tasks # << >>

\* C25: when the RequestCall or the ConfirmCall RPC of a call fails, the
\* step that ends the coroutine with the error leaves the call in FAILED
C25_FailedRpcFailsCall ==
    [][\A k \in 1..Len(tasks) :
          (/\ tasks[k].pc \in {"RequestCall", "ConfirmCall"}
           /\ tasks' = Finish(k)
           /\ last' = Did(last'.op, tasks[k].c, "error"))
              => calls'[tasks[k].c].state = "FAILED"]_vars

\* C26: an UpdatePhoneCallSignalingData is handed only to the media
\* transport of the call whose id is the phone_call_id of the update
C26_SignalingOnlyToMatchingCall ==
    \A i \in sig.into : call_id(calls[i]) = sig.id

\* C28: once a call is ENDED no UpdatePhoneCallSignalingData is handed to
\* its media transport any more and no SendSignalingData RPC is issued for
\* it any more
C28_NoSignalingAfterEnded ==
    /\ last.op = "receiveSignalingData"
          => \A i \in sig.into : calls[i].state # "ENDED"
    /\ last.op = "SendSignalingData" => calls[last.c].state # "ENDED"

EventState(e) ==
    CASE e.type = "call.state_changed" -> e.info
      [] e.type = "call.ended" -> (IF e.info = "failed" THEN "FAILED"
                                   ELSE IF e.info = "busy" THEN "BUSY" ELSE "ENDED")
      [] e.type = "call.connected" -> "ESTABLISHED"
      [] e.type = "call.incoming" -> "WAITING_INCOMING"
      [] OTHER -> "None"

\* C29: every change of a call's state publishes a lifecycle event with
\* the call's id and the new state; published events stay recorded, so for
\* the state a call is in there is an event with its id that tells it
C29_TransitionEmitsEvent ==
    \A i \in 1..Len(calls) :
        \E e \in BagToSet(events) :
            e.call_id = call_id(calls[i]) /\ EventState(e) = calls[i].state

\* C30: the public value g^private_key mod p that request_call generates
\* for itself, with the private key drawn from 2..p-1, passes check_g
C30_OwnValueValid ==
    (sys = "aiortc" /\ ai.g_a # None)
        => \A p \in DHPrimes : check_g(ai.g_a, p)

\* C31: the byte encoding of a derived shared secret (auth_key_bytes) has
\* the byte length of the modulus it was derived with
C31_SecretOfModulusSize ==
    \A i \in 1..Len(calls) :
        calls[i].auth_key # None
            => Len(auth_key_bytes(calls[i])) = Len(i2b(calls[i].dhc))

\* C32: a handler that raises is contained: every handler has been called
\* with every event that was emitted, and no emit_event let an exception
\* out to the code that published the event
C32_SubscriberFailureContained ==
    /\ ~subs.raised
    /\ \A h \in 1..MaxHandlers : subs.got[h] = subs.emitted

\* the first handler raised in the last emit_event
C32_Witness ==
    /\ 1 \in subs.failed
    /\ subs.emitted # {}
    /\ subs.got[MaxHandlers] = subs.emitted

\* C33: no two call objects with a registered update handler have the
\* same call id
C33_OneCallPerId ==
    \A i, j \in 1..Len(calls) :
        (/\ i # j
         /\ calls[i].handler /\ calls[j].handler
         /\ call_id(calls[i]) # 0)
            => call_id(calls[i]) # call_id(calls[j])

\* C34: a call that has derived its shared secret and is ESTABLISHED or in
\* a terminal state holds no private exponent any more
C34_PrivateExponentErased ==
    \A i \in 1..Len(calls) :
        (calls[i].auth_key # None /\ calls[i].state \in {"ESTABLISHED"} \cup Terminal)
            => (calls[i].a = None /\ calls[i].b = None)

\* C35: a DiscardCall RPC issued for a call names the access hash the
\* server supplied for it, never the unset value
C35_RpcCarriesAccessHash ==
    \A r \in BagToSet(rpcs) :
        (r.op = "DiscardCall" /\ r.id # 0) => r.access_hash # None

\* C36: the step in which an outgoing call derives its shared secret uses
\* the modulus the call held before, which is the one g_a was computed
\* with when the call was requested
C36_SecretModulusIsRequestModulus ==
    [][\A i \in 1..Len(calls) :
          (calls[i].role = "out" /\ calls'[i].derived # calls[i].derived)
              => calls'[i].derived[2] = calls[i].dhc]_vars

\* C37: when _confirm_call issues ConfirmCall, the g_a it reveals hashes to
\* the g_a_hash that was committed in RequestCall
C37_RevealedValueIsCommitted ==
    [][\A k \in 1..Len(tasks) :
          (/\ At(k, {"ai.process_update"}, "confirm.GetDhConfig")
           /\ tasks' = Goto(k, "confirm.ConfirmCall"))
              => sha256(i2b(ai.g_a)) = ai.g_a_hash]_vars

\* C38: the step that ends the _call_timeout task of a call leaves
\* active_call alone when active_call is another call
C38_TimerKeepsNewerCall ==
    [][\A k \in 1..Len(tasks) :
          (/\ tasks[k].op = "timeout" /\ tasks[k].pc = "DiscardCall"
           /\ tasks' = Finish(k)
           /\ active_call # 0 /\ active_call # tasks[k].c)
              => active_call' = active_call]_vars

\* C39: in the bridge an UpdatePhoneCallSignalingData is handed to the
\* media transport of a call exactly once
C39_SignalingInjectedOnce ==
    sys = "bridge" => \A i \in sig.into : sig.times[i] = 1

\* C40: a PhoneCall notification makes AiortcP2PCall set up the media
\* session and emit call.connected only when the call is not ACTIVE yet
C40_MediaSetUpOnce ==
    [][(last' = Did("_setup_webrtc", 0, "connected") /\ inputs' # inputs)
          => ai.state # "ACTIVE"]_vars

====
